---- MODULE Spec2Model ----
(***************************************************************************)
(* Model of scripts/profile_events_nested.py: the nested-path profiler of  *)
(* JSON / JSONL records (type_name, summarize_value, ensure_field_stats,   *)
(* update_field_stats, walk_value, profile_root).                          *)
(*                                                                         *)
(* A Python str is a sequence of one-character strings, so that path       *)
(* concatenation (f"{path}.{k}", f"{path}[]") and the search for "." and   *)
(* "[]" inside a path are computed, not assumed.  Python's None is the     *)
(* empty sequence <<>> and a present number n is <<n>>.                    *)
(***************************************************************************)
EXTENDS Integers, Sequences, FiniteSets, TLC

(***************************************************************************)
(* Bounds of the model.                                                    *)
(***************************************************************************)
MaxRecords == 2        \* records yielded by the record source in one run
MaxCalls == 2          \* public walk_value calls
MaxDepthBound == 1     \* max_depth ranges over -1 .. MaxDepthBound
MaxStringLenBound == 1 \* max_string_example_len ranges over 0 .. MaxStringLenBound
MaxExamplesBound == 2  \* max_examples_per_key ranges over 0 .. MaxExamplesBound
MaxArrayItemsBound == 2 \* max_array_items ranges over 0 .. MaxArrayItemsBound
DrawScale == 2         \* random.random() and sample_rate are multiples of 1/DrawScale

MAX_OBJECT_KEYS_IN_SUMMARY == 20

(***************************************************************************)
(* JSON values.                                                            *)
(***************************************************************************)
VNull == [kind |-> "null"]
VBool(b) == [kind |-> "bool", b |-> b]
VNum(n) == [kind |-> "number", n |-> n]
VStr(s) == [kind |-> "string", s |-> s]
VArr(items) == [kind |-> "array", items |-> items]
\* fields: the (key, value) pairs of a dict in insertion order, keys distinct
VObj(fields) == [kind |-> "object", fields |-> fields]
KV(k, v) == [k |-> k, v |-> v]

IsStr(v) == v.kind = "string"
IsList(v) == v.kind = "array"
IsDict(v) == v.kind = "object"

None == <<>>
Some(x) == <<x>>

Min(a, b) == IF a <= b THEN a ELSE b

type_name(value) ==
    IF value.kind = "null" THEN "null"
    ELSE IF value.kind = "bool" THEN "bool"
    ELSE IF value.kind = "number" THEN "number"
    ELSE IF IsStr(value) THEN "string"
    ELSE IF IsList(value) THEN "array"
    ELSE IF IsDict(value) THEN "object"
    ELSE value.kind

(***************************************************************************)
(* summarize_value                                                         *)
(***************************************************************************)
Digit(d) ==
    CASE d = 0 -> "0" [] d = 1 -> "1" [] d = 2 -> "2" [] d = 3 -> "3"
      [] d = 4 -> "4" [] d = 5 -> "5" [] d = 6 -> "6" [] d = 7 -> "7"
      [] d = 8 -> "8" [] d = 9 -> "9"

RECURSIVE Decimal(_)
Decimal(n) == IF n < 10 THEN <<Digit(n)>> ELSE Decimal(n \div 10) \o <<Digit(n % 10)>>

\* f"...(truncated, original_len={len(v)})"
TruncationMarker(l) ==
    <<".", ".", ".", "(", "t", "r", "u", "n", "c", "a", "t", "e", "d", ",", " ",
      "o", "r", "i", "g", "i", "n", "a", "l", "_", "l", "e", "n", "=">>
    \o Decimal(l) \o <<")">>

Keys(fields) == [i \in 1..Len(fields) |-> fields[i].k]

summarize_value(v, max_string_len) ==
    IF IsStr(v)
    THEN IF Len(v.s) <= max_string_len
         THEN v
         ELSE VStr(SubSeq(v.s, 1, max_string_len) \o TruncationMarker(Len(v.s)))
    ELSE IF IsList(v)
    THEN [__kind__ |-> "array",
          len |-> Len(v.items),
          sample_type |-> IF v.items # <<>> THEN Some(type_name(v.items[1])) ELSE None]
    ELSE IF IsDict(v)
    THEN [__kind__ |-> "object",
          keys |-> SubSeq(Keys(v.fields), 1, Min(Len(v.fields), MAX_OBJECT_KEYS_IN_SUMMARY))]
    ELSE v

(***************************************************************************)
(* ensure_field_stats / update_field_stats                                 *)
(***************************************************************************)
NewFieldStats ==
    [count |-> 0,
     types |-> <<>>,
     examples |-> <<>>,
     string_length_stats |-> [min |-> None, max |-> None, sum |-> 0, count |-> 0]]

\* stats.setdefault(path, {...}): the store with an entry for path
ensure_field_stats(stats, path) ==
    IF path \in DOMAIN stats THEN stats ELSE stats @@ (path :> NewFieldStats)

\* mutant: a tag already present is not incremented
CounterIncrOnlyNew(types, tn) ==
    IF tn \in DOMAIN types THEN types ELSE types @@ (tn :> 1)

\* Counter: st["types"][tn] += 1, a missing tag counting as 0
CounterIncr(types, tn) ==
    IF tn \in DOMAIN types THEN [types EXCEPT ![tn] = @ + 1] ELSE types @@ (tn :> 1)

\* mutant: max is set on the first string only
StringLengthUpdateMaxOnce(sls, l) ==
    [min |-> IF sls.min = None \/ l < sls.min[1] THEN Some(l) ELSE sls.min,
     max |-> IF sls.max = None THEN Some(l) ELSE sls.max,
     sum |-> sls.sum + l,
     count |-> sls.count + 1]

StringLengthUpdate(sls, l) ==
    [min |-> IF sls.min = None \/ l < sls.min[1] THEN Some(l) ELSE sls.min,
     max |-> IF sls.max = None \/ l > sls.max[1] THEN Some(l) ELSE sls.max,
     sum |-> sls.sum + l,
     count |-> sls.count + 1]

\* mutant: the bound is tested with <= (one example too many)
ExamplesUpdateOffByOne(examples, value, max_examples_per_key, max_string_example_len) ==
    IF Len(examples) <= max_examples_per_key
    THEN Append(examples, summarize_value(value, max_string_example_len))
    ELSE examples

ExamplesUpdate(examples, value, max_examples_per_key, max_string_example_len) ==
    IF Len(examples) < max_examples_per_key
    THEN Append(examples, summarize_value(value, max_string_example_len))
    ELSE examples

update_field_stats(stats, path, value, max_examples_per_key, max_string_example_len) ==
    LET s0 == ensure_field_stats(stats, path)
        st == s0[path]
    IN [s0 EXCEPT ![path] =
          [count |-> st.count + 1,
           types |-> CounterIncr(st.types, type_name(value)),
           examples |-> ExamplesUpdate(st.examples, value, max_examples_per_key,
                                       max_string_example_len),
           string_length_stats |->
               IF IsStr(value)
               THEN StringLengthUpdate(st.string_length_stats, Len(value.s))
               ELSE st.string_length_stats]]

(***************************************************************************)
(* walk_value.  c is the configuration passed unchanged down the           *)
(* recursion: max_depth, max_examples_per_key, max_string_example_len,     *)
(* max_array_items.  w is the store with the observation log: w.stats is    *)
(* the dict the code mutates, w.log lists, in order, the calls of          *)
(* update_field_stats (path, value, depth and the route of keys and array  *)
(* indices that led from the entry point to the node); w.rec numbers the   *)
(* record (or public call) being processed.                                *)
(***************************************************************************)
KeyStep(k) == [key |-> k]
IdxStep(i) == [idx |-> i]

\* mutant: the entry gate is tested with >= (the level max_depth is lost)
PastDepthOffByOne(depth, max_depth) == depth >= max_depth

\* mutant: no entry gate
PastDepthNever(depth, max_depth) == FALSE

\* if depth > max_depth: return
PastDepth(depth, max_depth) == depth > max_depth

\* if depth == max_depth: return
AtDepthLimit(depth, max_depth) == depth = max_depth

\* mutant: no fallback for an empty parent path
KeyChildPathAlwaysDot(path, k) == path \o <<".">> \o k

\* child_path = f"{path}.{k}" if path else k
KeyChildPath(path, k) == IF path # <<>> THEN path \o <<".">> \o k ELSE k

\* child_path = f"{path}[]" if path else "[]"
ArrayChildPath(path) == IF path # <<>> THEN path \o <<"[", "]">> ELSE <<"[", "]">>

\* mutant: the bound is tested with > (one element too many)
FanOutStopOffByOne(i, max_array_items) == i > max_array_items

\* if i >= max_array_items: break      (i is Python's 0-based index)
FanOutStop(i, max_array_items) == i >= max_array_items

Observe(w, path, value, depth, route, c) ==
    [stats |-> update_field_stats(w.stats, path, value, c.max_examples_per_key,
                                  c.max_string_example_len),
     log |-> Append(w.log, [path |-> path, value |-> value, depth |-> depth,
                            route |-> route, rec |-> w.rec]),
     rec |-> w.rec]

RECURSIVE walk_value(_, _, _, _, _, _)
RECURSIVE WalkItems(_, _, _, _, _, _, _)
RECURSIVE WalkElems(_, _, _, _, _, _, _)

\* for k, v in value.items(): ...   (j: 1-based position of the next pair)
WalkItems(w, path, fields, j, depth, route, c) ==
    IF j > Len(fields) THEN w
    ELSE WalkItems(walk_value(w, KeyChildPath(path, fields[j].k), fields[j].v,
                              depth + 1, Append(route, KeyStep(fields[j].k)), c),
                   path, fields, j + 1, depth, route, c)

\* for i, elem in enumerate(value): ...   (i: Python's 0-based index)
WalkElems(w, path, items, i, depth, route, c) ==
    IF i >= Len(items) \/ FanOutStop(i, c.max_array_items) THEN w
    ELSE WalkElems(walk_value(w, ArrayChildPath(path), items[i + 1],
                              depth + 1, Append(route, IdxStep(i)), c),
                   path, items, i + 1, depth, route, c)

walk_value(w, path, value, depth, route, c) ==
    IF PastDepth(depth, c.max_depth) THEN w
    ELSE LET w1 == Observe(w, path, value, depth, route, c)
         IN IF IsDict(value)
            THEN IF AtDepthLimit(depth, c.max_depth) THEN w1
                 ELSE WalkItems(w1, path, value.fields, 1, depth, route, c)
            ELSE IF IsList(value)
            THEN IF AtDepthLimit(depth, c.max_depth) THEN w1
                 ELSE WalkElems(w1, path, value.items, 0, depth, route, c)
            ELSE w1

(***************************************************************************)
(* Sample data: strings, nested values, records and public-call inputs.    *)
(***************************************************************************)
Ka == <<"a">>
Kb == <<"b">>
Kempty == <<>>
Kdot == <<"a", ".", "b">>
Karr == <<"a", "[", "]">>

Sempty == VStr(<<>>)
Sa == VStr(<<"a">>)
Saba == VStr(<<"a", "b", "a">>)

Arr3 == VArr(<<VNum(1), Sa, VNull>>)
ObjB == VObj(<<KV(Kb, Sa)>>)
ObjEmptyKey == VObj(<<KV(Kempty, Sempty), KV(Ka, VNum(1))>>)
Nested == VArr(<<VArr(<<VNum(1), Sa, Saba>>), VObj(<<KV(Kb, VArr(<<VNull>>))>>)>>)

Records ==
    { VObj(<<KV(Ka, Saba), KV(Kb, VNum(1))>>),
      VObj(<<KV(Ka, ObjB)>>),
      VObj(<<KV(Kdot, VBool(TRUE))>>),
      VObj(<<KV(Ka, Arr3)>>),
      VObj(<<KV(Karr, Saba)>>),
      VObj(<<KV(Kempty, ObjEmptyKey)>>),
      VObj(<<KV(Ka, Nested)>>) }

CallPaths == {Kempty, Ka}
CallValues == {Saba, Arr3, ObjEmptyKey, Nested}

(***************************************************************************)
(* State.                                                                  *)
(***************************************************************************)
VARIABLES
    max_depth, max_examples_per_key, max_string_example_len, max_array_items,
    sample_rate,          \* in units of 1/DrawScale: DrawScale is 1.0
    field_stats,          \* dict: path -> accumulator
    total_records, total_records_seen,
    pc,                   \* "reading" | "done"
    result,               \* profile_root's return value, None until returned
    log,                  \* history: the update_field_stats calls so far, in order
    last,                 \* history: the last operation and the store before it
    sampled,              \* history: the records that passed sampling, in order
    ncalls                \* history: number of public calls made

vars == <<max_depth, max_examples_per_key, max_string_example_len, max_array_items,
          sample_rate, field_stats, total_records, total_records_seen, pc, result,
          log, last, sampled, ncalls>>

config == <<max_depth, max_examples_per_key, max_string_example_len, max_array_items,
            sample_rate>>

Cfg ==
    [max_depth |-> max_depth,
     max_examples_per_key |-> max_examples_per_key,
     max_string_example_len |-> max_string_example_len,
     max_array_items |-> max_array_items]

SampleRates == {0, DrawScale \div 2, DrawScale}
Draws == 0 .. (DrawScale - 1)      \* random.random() is in [0, 1)

InitStore ==
    /\ field_stats = <<>>
    /\ total_records = 0
    /\ total_records_seen = 0
    /\ pc = "reading"
    /\ result = None
    /\ log = <<>>
    /\ last = [op |-> "init"]
    /\ sampled = <<>>
    /\ ncalls = 0

Init ==
    /\ max_depth \in -1 .. MaxDepthBound
    /\ max_examples_per_key \in 0 .. MaxExamplesBound
    /\ max_string_example_len \in 0 .. MaxStringLenBound
    /\ max_array_items \in 0 .. MaxArrayItemsBound
    /\ sample_rate \in SampleRates
    /\ InitStore

(***************************************************************************)
(* profile_root: the loop over the records, then the finalizer.            *)
(***************************************************************************)
\* if sample_rate < 1.0: if random.random() > sample_rate: continue
SampledOut(rate, draw) == rate < DrawScale /\ draw > rate

\* mutant: the top-level keys are walked one level too high
RootDepthBelow == 0 - 1

\* depth=0: the depth the top-level keys are walked at
RootDepth == 0

\* for k, v in record.items(): walk_value(stats=field_stats, path=k, value=v, depth=0, ...)
RECURSIVE WalkRecord(_, _, _, _)
WalkRecord(w, fields, j, c) ==
    IF j > Len(fields) THEN w
    ELSE WalkRecord(walk_value(w, fields[j].k, fields[j].v, RootDepth,
                               <<KeyStep(fields[j].k)>>, c),
                    fields, j + 1, c)

ReadRecord(record, draw) ==
    /\ pc = "reading"
    /\ total_records_seen < MaxRecords
    /\ IsDict(record)
    /\ total_records_seen' = total_records_seen + 1
    /\ IF SampledOut(sample_rate, draw)
       THEN /\ UNCHANGED <<field_stats, total_records, log, sampled>>
            /\ last' = [op |-> "skip", record |-> record, before |-> field_stats,
                        from |-> Len(log)]
       ELSE LET w == WalkRecord([stats |-> field_stats, log |-> log,
                                 rec |-> total_records_seen + 1],
                                record.fields, 1, Cfg)
            IN /\ total_records' = total_records + 1
               /\ sampled' = Append(sampled, record)
               /\ field_stats' = w.stats
               /\ log' = w.log
               /\ last' = [op |-> "record", record |-> record, before |-> field_stats,
                           from |-> Len(log)]
    /\ UNCHANGED <<config, pc, result, ncalls>>

Ratio(n, d) == [num |-> n, den |-> d]

\* result_keys[path] = {...}
FieldReport(st, total) ==
    [count |-> st.count,
     coverage |-> IF total > 0 THEN Ratio(st.count, total) ELSE Ratio(0, 1),
     types |-> st.types,
     examples |-> st.examples,
     string_length_stats |->
        [min |-> st.string_length_stats.min,
         max |-> st.string_length_stats.max,
         avg |-> IF st.string_length_stats.count > 0
                 THEN Some(Ratio(st.string_length_stats.sum, st.string_length_stats.count))
                 ELSE None,
         count |-> st.string_length_stats.count]]

Finalize ==
    /\ pc = "reading"
    /\ pc' = "done"
    /\ result' = Some([total_records |-> total_records,
                       total_records_seen |-> total_records_seen,
                       sample_rate |-> sample_rate,
                       max_depth |-> max_depth,
                       max_array_items |-> max_array_items,
                       keys |-> [p \in DOMAIN field_stats |->
                                    FieldReport(field_stats[p], total_records)]])
    /\ last' = [op |-> "finalize"]
    /\ UNCHANGED <<config, field_stats, total_records, total_records_seen, log,
                   sampled, ncalls>>

Read == \E record \in Records, draw \in Draws : ReadRecord(record, draw)

Next == Read \/ Finalize

Spec == Init /\ [][Next]_vars

(***************************************************************************)
(* The public operation walk_value(stats, path, value, depth, ...) called  *)
(* directly, with any path and any depth.                                  *)
(***************************************************************************)
InitWalk ==
    /\ max_depth \in 0 .. MaxDepthBound
    /\ max_examples_per_key = MaxExamplesBound
    /\ max_string_example_len = MaxStringLenBound
    /\ max_array_items \in 0 .. MaxArrayItemsBound
    /\ sample_rate = DrawScale
    /\ InitStore

WalkCall(path, value, depth) ==
    /\ ncalls < MaxCalls
    /\ ncalls' = ncalls + 1
    /\ LET w == walk_value([stats |-> field_stats, log |-> log, rec |-> ncalls + 1],
                           path, value, depth, <<>>, Cfg)
       IN /\ field_stats' = w.stats
          /\ log' = w.log
    /\ last' = [op |-> "walk", path |-> path, value |-> value, depth |-> depth,
                before |-> field_stats, from |-> Len(log)]
    /\ UNCHANGED <<config, total_records, total_records_seen, pc, result, sampled>>

Walk ==
    \E path \in CallPaths, value \in CallValues, depth \in 0 .. (MaxDepthBound + 1) :
        WalkCall(path, value, depth)

NextWalk == Walk

SpecWalk == InitWalk /\ [][NextWalk]_vars

(***************************************************************************)
(* Auxiliary operators of the properties.                                  *)
(***************************************************************************)
RECURSIVE SumOver(_, _)
SumOver(f, S) ==
    IF S = {} THEN 0
    ELSE LET x == CHOOSE y \in S : TRUE IN f[x] + SumOver(f, S \ {x})

RECURSIVE SumSeq(_)
SumSeq(q) == IF q = <<>> THEN 0 ELSE Head(q) + SumSeq(Tail(q))

Range(q) == {q[i] : i \in DOMAIN q}

\* whether pat occurs in path as a contiguous substring
Contains(path, pat) ==
    \E i \in 1 .. (Len(path) - Len(pat) + 1) : SubSeq(path, i, i + Len(pat) - 1) = pat

IsObsAt(e, p) == e.path = p
\* the observations made at path p, in order
ObsAt(p) == SelectSeq(log, LAMBDA e : IsObsAt(e, p))
\* the lengths of the strings observed at path p, in order
IsStrObsAt(e, p) == e.path = p /\ IsStr(e.value)
StrLensAt(p) == LET q == SelectSeq(log, LAMBDA e : IsStrObsAt(e, p))
                IN [i \in 1 .. Len(q) |-> Len(q[i].value.s)]

CountOf(stats, p) == IF p \in DOMAIN stats THEN stats[p].count ELSE 0
TagCount(types, tn) == IF tn \in DOMAIN types THEN types[tn] ELSE 0

\* the observations of the last operation
NewEntries == SubSeq(log, last.from + 1, Len(log))

(***************************************************************************)
(* C1: in every reachable store, every accumulator's count equals the sum  *)
(* of its type_counts values, and its string_length_stats.count is at most *)
(* its count.                                                              *)
(***************************************************************************)
C1_CountIsSumOfTypes ==
    \A p \in DOMAIN field_stats :
        /\ field_stats[p].count = SumOver(field_stats[p].types, DOMAIN field_stats[p].types)
        /\ field_stats[p].string_length_stats.count <= field_stats[p].count

\* a path observed three times or more, with two type tags, some but not all strings
C1_Witness ==
    \E p \in DOMAIN field_stats :
        /\ field_stats[p].count >= 3
        /\ Cardinality(DOMAIN field_stats[p].types) >= 2
        /\ field_stats[p].string_length_stats.count > 0
        /\ field_stats[p].string_length_stats.count < field_stats[p].count

(***************************************************************************)
(* C2: for every path, examples is exactly the summaries of the first      *)
(* min(K, count) observations made at the path, in observation order       *)
(* (K = max_examples_per_key); so its length never exceeds K.              *)
(***************************************************************************)
C2_ExamplesAreFirstK ==
    \A p \in DOMAIN field_stats :
        LET obs == ObsAt(p)
            n == Min(max_examples_per_key, field_stats[p].count)
        IN /\ Len(field_stats[p].examples) <= max_examples_per_key
           /\ n <= Len(obs)
           /\ field_stats[p].examples =
                  [i \in 1 .. n |-> summarize_value(obs[i].value, max_string_example_len)]
           \* append-only, and frozen once K entries are held
           /\ (last.op = "record" /\ p \in DOMAIN last.before) =>
                 LET old == last.before[p].examples
                 IN /\ Len(old) <= Len(field_stats[p].examples)
                    /\ SubSeq(field_stats[p].examples, 1, Len(old)) = old
                    /\ Len(old) = max_examples_per_key => field_stats[p].examples = old

\* a path observed more often than K >= 2, whose examples hold a truncated string
C2_Witness ==
    \E p \in DOMAIN field_stats :
        /\ max_examples_per_key >= 2
        /\ field_stats[p].count > max_examples_per_key
        /\ Len(field_stats[p].examples) = max_examples_per_key
        /\ \E i \in DOMAIN field_stats[p].examples :
               /\ IsStr(ObsAt(p)[i].value)
               /\ field_stats[p].examples[i] # ObsAt(p)[i].value

(***************************************************************************)
(* C10: each path's string_length_stats summarises exactly the strings     *)
(* observed at the path: count is type_counts["string"], sum the total of  *)
(* their lengths, min and max the smallest and largest length; min and max *)
(* are None iff count is 0, else min <= max and                            *)
(* min*count <= sum <= max*count.  Observations of other types do not      *)
(* enter it.  The finalizer reports the same min, max and count.           *)
(***************************************************************************)
C10_StringLengthStats ==
    \A p \in DOMAIN field_stats :
        LET sls == field_stats[p].string_length_stats
            lens == StrLensAt(p)
        IN /\ sls.count = Len(lens)
           /\ sls.count = TagCount(field_stats[p].types, "string")
           /\ sls.sum = SumSeq(lens)
           /\ (sls.min = None) <=> (sls.count = 0)
           /\ (sls.max = None) <=> (sls.count = 0)
           /\ sls.count > 0 =>
                 /\ sls.min[1] \in Range(lens) /\ \A l \in Range(lens) : sls.min[1] <= l
                 /\ sls.max[1] \in Range(lens) /\ \A l \in Range(lens) : l <= sls.max[1]
                 /\ sls.min[1] <= sls.max[1]
                 /\ sls.min[1] * sls.count <= sls.sum
                 /\ sls.sum <= sls.max[1] * sls.count
           /\ pc = "done" =>
                 LET rep == result[1].keys[p].string_length_stats
                 IN /\ rep.min = sls.min /\ rep.max = sls.max /\ rep.count = sls.count
                    /\ rep.avg = IF sls.count > 0 THEN Some(Ratio(sls.sum, sls.count))
                                 ELSE None

\* a finalized path with strings of two lengths and an observation that is no string
C10_Witness ==
    /\ pc = "done"
    /\ \E p \in DOMAIN field_stats :
          LET sls == field_stats[p].string_length_stats
          IN /\ sls.count >= 2
             /\ sls.min[1] < sls.max[1]
             /\ sls.count < field_stats[p].count

(***************************************************************************)
(* C3 (as stated): with max_depth = 0, no path of the store contains "."   *)
(* or "[]".                                                                *)
(***************************************************************************)
Dot == <<".">>
Brackets == <<"[", "]">>

C3_NoDotNoBrackets ==
    max_depth = 0 =>
        \A p \in DOMAIN field_stats : ~Contains(p, Dot) /\ ~Contains(p, Brackets)

\* the paths profile_root seeds walk_value with: the keys of the sampled records
TopLevelKeys == UNION {Range(Keys(sampled[i].fields)) : i \in DOMAIN sampled}

(***************************************************************************)
(* C3 (amended): with max_depth = 0, the paths of the store are exactly    *)
(* the top-level keys of the sampled records, each observation is made at  *)
(* depth 0 at the key itself; so a path contains "." or "[]" only where a  *)
(* top-level key does.                                                     *)
(***************************************************************************)
C3_OnlyTopLevelKeys ==
    max_depth = 0 =>
        /\ DOMAIN field_stats = TopLevelKeys
        /\ \A i \in DOMAIN log :
              /\ log[i].depth = 0
              /\ log[i].route = <<KeyStep(log[i].path)>>

\* max_depth = 0, a record with a nested object was walked, and a path holds a "."
C3_Witness ==
    /\ max_depth = 0
    /\ \E i \in DOMAIN log : IsDict(log[i].value) /\ log[i].value.fields # <<>>
    /\ \E p \in DOMAIN field_stats : Contains(p, Dot)

(***************************************************************************)
(* C4: an array of n elements visited at path p with depth < max_depth has *)
(* exactly its first min(n, max_array_items) elements walked, each at the  *)
(* one child path p + "[]"; no element at index >= max_array_items, nor    *)
(* anything below it, is observed anywhere.  The bound is per array        *)
(* instance: the count of a path is the number of observations made at it, *)
(* over all arrays and records.                                            *)
(***************************************************************************)
IsPrefix(r, q) == Len(r) <= Len(q) /\ SubSeq(q, 1, Len(r)) = r

C4_ArrayFanOut ==
    /\ \A p \in DOMAIN field_stats : field_stats[p].count = Len(ObsAt(p))
    /\ \A a \in DOMAIN log :
          (IsList(log[a].value) /\ log[a].depth < max_depth) =>
            LET e == log[a]
                n == Len(e.value.items)
                m == Min(n, max_array_items)
                \* observations of the direct elements of this array instance
                kids == {i \in DOMAIN log :
                            /\ log[i].rec = e.rec
                            /\ Len(log[i].route) = Len(e.route) + 1
                            /\ IsPrefix(e.route, log[i].route)}
            IN /\ Cardinality(kids) = m
               /\ \A i \in kids :
                     /\ i > a
                     /\ log[i].path = e.path \o Brackets
                     /\ "idx" \in DOMAIN log[i].route[Len(e.route) + 1]
                     /\ log[i].route[Len(e.route) + 1].idx \in 0 .. (m - 1)
                     /\ log[i].value = e.value.items[log[i].route[Len(e.route) + 1].idx + 1]
               /\ \A i \in 0 .. (m - 1) :
                     \E j \in kids : log[j].route = Append(e.route, IdxStep(i))
               /\ \A i \in DOMAIN log, x \in max_array_items .. (n - 1) :
                     ~(log[i].rec = e.rec /\ IsPrefix(Append(e.route, IdxStep(x)), log[i].route))

\* two arrays of three elements each gave two observations each to the same child path
C4_Witness ==
    /\ max_array_items = 2
    /\ \E a, b \in DOMAIN log :
          /\ a < b
          /\ log[a].rec # log[b].rec
          /\ log[a].path = log[b].path
          /\ IsList(log[a].value) /\ Len(log[a].value.items) = 3
          /\ IsList(log[b].value) /\ Len(log[b].value.items) = 3
          /\ log[a].depth < max_depth
          /\ (log[a].path \o Brackets) \in DOMAIN field_stats
          /\ field_stats[log[a].path \o Brackets].count = 4

(***************************************************************************)
(* C5: sample_rate = 1.0 gives total_records = total_records_seen,         *)
(* sample_rate = 0.0 gives total_records = 0 and coverage 0.0 for every    *)
(* path, whatever the draws; always total_records <= total_records_seen.   *)
(***************************************************************************)
C5_SamplingExtremes ==
    /\ total_records <= total_records_seen
    /\ sample_rate = DrawScale => total_records = total_records_seen
    /\ sample_rate = 0 =>
          /\ total_records = 0
          /\ pc = "done" =>
                \A p \in DOMAIN result[1].keys : result[1].keys[p].coverage = Ratio(0, 1)

(***************************************************************************)
(* C8: observations aggregated at the same path were reached by the same   *)
(* sequence of object keys and array steps from the top of a record.       *)
(***************************************************************************)
EraseIndex(step) == IF "idx" \in DOMAIN step THEN [array |-> TRUE] ELSE step
Location(route) == [i \in 1 .. Len(route) |-> EraseIndex(route[i])]

C8_PathsAreUnique ==
    \A i, j \in DOMAIN log :
        log[i].path = log[j].path => Location(log[i].route) = Location(log[j].route)

(***************************************************************************)
(* C9 (as stated): from profile_root, walk_value is never called with an   *)
(* empty path.                                                             *)
(***************************************************************************)
C9_NoEmptyPath ==
    /\ \A k \in TopLevelKeys : k # <<>>
    /\ \A i \in DOMAIN log : log[i].path # <<>>

(***************************************************************************)
(* C9 (amended): from profile_root, a node is walked with an empty path    *)
(* exactly when it is reached through empty-string object keys alone (a    *)
(* top-level key "" and keys "" nested below it); with no such key no      *)
(* call has an empty path.                                                 *)
(***************************************************************************)
OnlyEmptyKeys(route) ==
    \A i \in DOMAIN route : "key" \in DOMAIN route[i] /\ route[i].key = <<>>

C9_EmptyPathOnlyByEmptyKeys ==
    \A i \in DOMAIN log : (log[i].path = <<>>) <=> OnlyEmptyKeys(log[i].route)

\* below a top-level key "", a nested key "" was walked at the empty path and a
\* nested key "a" at the path "a" (the fallback for an empty parent path)
C9_Witness ==
    /\ \E i \in DOMAIN log : log[i].path = <<>> /\ Len(log[i].route) = 2
    /\ \E i \in DOMAIN log : log[i].path = Ka /\ Len(log[i].route) = 2

(***************************************************************************)
(* C6 (as stated): every call walk_value(stats, path, value, depth)        *)
(* records an observation of value at path first, whatever the depth and   *)
(* max_depth.                                                              *)
(***************************************************************************)
OwnObservationFirst ==
    /\ Len(log) > last.from
    /\ log[last.from + 1].path = last.path
    /\ log[last.from + 1].value = last.value
    /\ log[last.from + 1].route = <<>>
    /\ CountOf(field_stats, last.path) >= CountOf(last.before, last.path) + 1

C6_AlwaysObserves == last.op = "walk" => OwnObservationFirst

(***************************************************************************)
(* C6 (amended): a call walk_value(stats, path, value, depth) with         *)
(* depth <= max_depth records an observation of value at path before any   *)
(* other, for every value kind; a call with depth > max_depth records      *)
(* nothing.                                                                *)
(***************************************************************************)
C6_ObservesUnlessPastDepth ==
    last.op = "walk" =>
        IF last.depth <= max_depth
        THEN OwnObservationFirst
        ELSE Len(log) = last.from /\ field_stats = last.before

\* a second call, on a store that is not empty, at depth = max_depth on an object:
\* it recorded its own observation and no other
C6_Witness ==
    /\ last.op = "walk"
    /\ last.depth = max_depth
    /\ IsDict(last.value)
    /\ Len(log) = last.from + 1
    /\ last.from > 0
    /\ ncalls = 2

(***************************************************************************)
(* C7: with max_depth >= 0, a call at depth d observes exactly the nodes   *)
(* of the value that lie within the array fan-out bound and whose nesting  *)
(* level (d plus the length of the route to the node) is at most           *)
(* max_depth, each once.  A call at depth = max_depth changes the store    *)
(* only by one observation at its own path, whatever the value kind; a     *)
(* call at depth > max_depth leaves the store unchanged.                   *)
(***************************************************************************)
RECURSIVE Routes(_)
Routes(v) ==
    {<<>>} \cup
    (IF IsDict(v)
     THEN UNION {{<<KeyStep(v.fields[j].k)>> \o r : r \in Routes(v.fields[j].v)} :
                    j \in DOMAIN v.fields}
     ELSE IF IsList(v)
     THEN UNION {{<<IdxStep(i - 1)>> \o r : r \in Routes(v.items[i])} : i \in DOMAIN v.items}
     ELSE {})

RECURSIVE NodeAt(_, _)
NodeAt(v, r) ==
    IF r = <<>> THEN v
    ELSE IF "idx" \in DOMAIN Head(r)
    THEN NodeAt(v.items[Head(r).idx + 1], Tail(r))
    ELSE NodeAt(v.fields[CHOOSE j \in DOMAIN v.fields : v.fields[j].k = Head(r).key].v,
                Tail(r))

WithinFanOut(r) ==
    \A i \in DOMAIN r : "idx" \in DOMAIN r[i] => r[i].idx < max_array_items

C7_DepthLevels ==
    (last.op = "walk" /\ max_depth >= 0) =>
        LET new == NewEntries
            expected == {r \in Routes(last.value) :
                            last.depth + Len(r) <= max_depth /\ WithinFanOut(r)}
        IN /\ {new[i].route : i \in DOMAIN new} = expected
           /\ Len(new) = Cardinality(expected)
           /\ \A i \in DOMAIN new :
                 /\ new[i].value = NodeAt(last.value, new[i].route)
                 /\ new[i].depth = last.depth + Len(new[i].route)
           /\ last.depth = max_depth =>
                 /\ Len(new) = 1
                 /\ new[1].path = last.path
                 /\ DOMAIN field_stats = DOMAIN last.before \cup {last.path}
                 /\ \A p \in DOMAIN last.before :
                       p # last.path => field_stats[p] = last.before[p]
                 /\ field_stats[last.path].count = CountOf(last.before, last.path) + 1
           /\ last.depth > max_depth =>
                 /\ field_stats = last.before
                 /\ new = <<>>

\* a second call, at depth 0 with max_depth = 1 and max_array_items = 2, on an
\* array nested three levels deep: the array and its two elements are observed
C7_Witness ==
    /\ last.op = "walk"
    /\ max_depth = 1
    /\ last.depth = 0
    /\ last.value = Nested
    /\ max_array_items = 2
    /\ Len(NewEntries) = 3
    /\ ncalls = 2

====
